---- MODULE Spec2Model ----
(***************************************************************************)
(* Model of unmix_convert_with_pyramids.py: tiles named with an [x,y]      *)
(* offset are composited onto a zero-filled uint16 canvas, the canvas is   *)
(* reduced to a point-sampled pyramid and the pyramid is written to one    *)
(* tiled container.                                                        *)
(*                                                                         *)
(* An ndarray is a record [kind, shape, px]: shape is the numpy shape      *)
(* tuple and px the samples, indexed from 0 as in the code: px[y][x] for a *)
(* 2-D array, px[y][x][c] for a 3-D one.  None is the record NoneVal.      *)
(* A file name is a sequence of one-character strings; the producer tag    *)
(* "component_data" is carried as one element of that sequence.            *)
(***************************************************************************)
EXTENDS Integers, Sequences, FiniteSets, TLC

VARIABLES
    pc,             \* position of the run
    folder,         \* directory listing: sequence of file records
    pattern,        \* --pattern argument ("" when absent)
    channels,       \* --channels argument
    channel_names,  \* --channel-names argument
    files,          \* result of find_tiff_files
    i,              \* loop index of the loop in progress (1-based)
    coordinates,    \* analyze_files: list of (x, y)
    dimensions,     \* analyze_files: list of (width, height, channels)
    max_x,          \* analyze_files: max(x + width)
    max_y,          \* analyze_files: max(y + height)
    canvas,         \* the canvas (NoneVal before create_canvas)
    prev,           \* the canvas as it was before the last placement
    filename,       \* argument of the last extract_coordinates call
    xy,             \* result of the last extract_coordinates call
    img,            \* result of the last read_tiff call
    placed,         \* placements done so far: sequence of [img, x, y]
    attempts,       \* channels whose copy the last placement attempted, in order
    pyramid,        \* write_ome_tiff: list of levels
    meta,           \* write_ome_tiff: descriptor resolved for each channel
    out,            \* output file: [exists, pages], pages being the levels written
    log             \* log records emitted, oldest first

vars == <<pc, folder, pattern, channels, channel_names, files, i, coordinates,
          dimensions, max_x, max_y, canvas, prev, filename, xy, img, placed,
          attempts, pyramid, meta, out, log>>

(***************************************************************************)
(* Bounds of the model.                                                    *)
(***************************************************************************)
MaxPieces == 3       \* most pieces in a file name drawn for extract_coordinates
MaxFiles == 2        \* most entries in the input folder
MaxTileDim == 2      \* largest height and width of a drawn tile
MaxCanvasDim == 3    \* largest height and width of a drawn canvas
MaxOffset == 3       \* largest drawn offset
MaxBands == 3        \* most bands stacked in a 2-D buffer given to read_tiff
MaxReadChannels == 8 \* most channels of a 3-D buffer given to read_tiff

(***************************************************************************)
(* Program constants.                                                      *)
(***************************************************************************)
Margin == 20             \* create_canvas: max_x += 20, max_y += 20
PyramidMinDim == 256     \* write_ome_tiff: while shape[0] > 256 and shape[1] > 256
BandHeight == 6          \* read_tiff: height = 6
MaxChannels == 6         \* read_tiff: img[:, :, :6]
Uint16Range == 65536     \* create_canvas: dtype=np.uint16
ReducedImage == 1        \* write_ome_tiff: options['subfiletype'] = 1

NoneVal == [kind |-> "None"]

\* no file at the output path
NoFile == [exists |-> FALSE, pages |-> <<>>]

Max(a, b) == IF a >= b THEN a ELSE b
Min(a, b) == IF a <= b THEN a ELSE b

(***************************************************************************)
(* extract_coordinates: re.search(r'\[(\d+),(\d+)\]', filename)            *)
(***************************************************************************)
Digit == {"0", "1", "2", "3", "4", "5", "6", "7", "8", "9"}

DigitVal(ch) ==
    CASE ch = "0" -> 0 [] ch = "1" -> 1 [] ch = "2" -> 2 [] ch = "3" -> 3
      [] ch = "4" -> 4 [] ch = "5" -> 5 [] ch = "6" -> 6 [] ch = "7" -> 7
      [] ch = "8" -> 8 [] ch = "9" -> 9

\* int(group): the decimal value of the digit string s[from..to]
RECURSIVE ParseInt(_, _, _)
ParseInt(s, from, to) ==
    IF to < from THEN 0
    ELSE 10 * ParseInt(s, from, to - 1) + DigitVal(s[to])

\* \d+ is greedy: the index just past the run of digits that starts at k
RECURSIVE DigitsEnd(_, _)
DigitsEnd(s, k) ==
    IF k <= Len(s) /\ s[k] \in Digit THEN DigitsEnd(s, k + 1) ELSE k

\* the pattern anchored at index k; no backtracking can succeed where the
\* greedy attempt fails, because the character after a digit run is fixed
MatchAt(s, k) ==
    LET a == k + 1
        b == DigitsEnd(s, a)
        c == b + 1
        d == DigitsEnd(s, c)
    IN  IF /\ k <= Len(s) /\ s[k] = "["
           /\ b > a
           /\ b <= Len(s) /\ s[b] = ","
           /\ d > c
           /\ d <= Len(s) /\ s[d] = "]"
        THEN [x |-> ParseInt(s, a, b - 1), y |-> ParseInt(s, c, d - 1)]
        ELSE NoneVal

\* re.search tries the start positions from left to right
RECURSIVE SearchFrom(_, _)
SearchFrom(s, k) ==
    IF k > Len(s) THEN NoneVal
    ELSE IF MatchAt(s, k) # NoneVal THEN MatchAt(s, k)
    ELSE SearchFrom(s, k + 1)

\* as extract_coordinates, but keeping the last occurrence
extract_coordinates_last(s) ==
    IF \E k \in 1..Len(s) : MatchAt(s, k) # NoneVal
    THEN MatchAt(s, CHOOSE k \in 1..Len(s) :
                       /\ MatchAt(s, k) # NoneVal
                       /\ \A m \in (k + 1)..Len(s) : MatchAt(s, m) = NoneVal)
    ELSE NoneVal

\* returns [x, y], or NoneVal for the code's (None, None)
extract_coordinates(s) == SearchFrom(s, 1)

(***************************************************************************)
(* ndarrays                                                                *)
(***************************************************************************)
Ndarray(shape, px) == [kind |-> "ndarray", shape |-> shape, px |-> px]

ndim(a) == Len(a.shape)

\* np.zeros((h, w, c))
Zeros3(h, w, c) ==
    Ndarray(<<h, w, c>>,
            [r \in 0..(h - 1) |-> [q \in 0..(w - 1) |-> [k \in 0..(c - 1) |-> 0]]])

\* storing a sample in a uint16 array keeps its low 16 bits
CastUint16(v) == v % Uint16Range

\* lines 153-160: a 2-D tile becomes (h, w, 1)
Lift3(a) ==
    IF ndim(a) = 2
    THEN Ndarray(<<a.shape[1], a.shape[2], 1>>,
                 [r \in 0..(a.shape[1] - 1) |->
                    [q \in 0..(a.shape[2] - 1) |-> [k \in 0..0 |-> a.px[r][q]]]])
    ELSE a

\* numpy's normalisation of a slice bound k on an axis of length n
SliceBound(k, n) == IF k < 0 THEN Max(k + n, 0) ELSE Min(k, n)

(***************************************************************************)
(* get_image_dimensions: a file record carries header, the fields of       *)
(* tif.pages[0] (NoneVal when the file cannot be opened for the probe),    *)
(* and data, the result of tif.asarray() (NoneVal when decoding fails).    *)
(* Returns [width, height, channels], or NoneVal when the code raises.     *)
(***************************************************************************)
get_image_dimensions(file) ==
    IF file.header = NoneVal THEN NoneVal
    ELSE IF file.header.samplesperpixel > 1
    THEN [width |-> file.header.imagewidth, height |-> file.header.imagelength,
          channels |-> file.header.samplesperpixel]
    ELSE IF file.data = NoneVal THEN NoneVal
    ELSE [width |-> file.header.imagewidth, height |-> file.header.imagelength,
          channels |-> IF ndim(file.data) > 2 THEN file.data.shape[3] ELSE 1]

(***************************************************************************)
(* read_tiff                                                               *)
(***************************************************************************)
HasComponentData(name) == \E k \in 1..Len(name) : name[k] = "component_data"

\* as Reshape, but reading the rows interleaved: row r * channels + c
ReshapeInterleaved(a) ==
    LET width == a.shape[2]
        height == BandHeight
        nch == a.shape[1] \div height
    IN  Ndarray(<<height, width, nch>>,
                [r \in 0..(height - 1) |->
                   [q \in 0..(width - 1) |->
                      [c \in 0..(nch - 1) |-> a.px[r * nch + c][q]]]])

\* lines 115-122: reshaped[:, :, c] = img[c*height:(c+1)*height, :]
Reshape(a) ==
    LET width == a.shape[2]
        height == BandHeight
        nch == a.shape[1] \div height
    IN  Ndarray(<<height, width, nch>>,
                [r \in 0..(height - 1) |->
                   [q \in 0..(width - 1) |->
                      [c \in 0..(nch - 1) |-> a.px[c * height + r][q]]]])

\* line 130: img[:, :, :6]
Truncate(a) ==
    Ndarray(<<a.shape[1], a.shape[2], MaxChannels>>,
            [r \in 0..(a.shape[1] - 1) |->
               [q \in 0..(a.shape[2] - 1) |->
                  [c \in 0..(MaxChannels - 1) |-> a.px[r][q][c]]]])

\* line 112 and line 114
IsStackedBands(file) ==
    /\ HasComponentData(file.name)
    /\ ndim(file.data) = 2
    /\ file.data.shape[1] % BandHeight = 0

\* as HasTooManyChannels, but without the test of line 112
HasTooManyChannelsAnyName(file) ==
    /\ ndim(file.data) = 3
    /\ file.data.shape[3] > MaxChannels

\* line 112 and line 128
HasTooManyChannels(file) ==
    /\ HasComponentData(file.name)
    /\ ndim(file.data) = 3
    /\ file.data.shape[3] > MaxChannels

read_tiff(file) ==
    IF file.data = NoneVal THEN NoneVal
    ELSE IF IsStackedBands(file) THEN Reshape(file.data)
    ELSE IF HasTooManyChannels(file) THEN Truncate(file.data)
    ELSE file.data

\* what read_tiff logs
ReadLog(file) ==
    IF file.data = NoneVal THEN <<"ERROR Error reading">>
    ELSE IF IsStackedBands(file) THEN <<"INFO Reshaped image">>
    ELSE IF HasTooManyChannels(file) THEN <<"INFO Limiting channels">>
    ELSE <<>>

(***************************************************************************)
(* create_canvas and place_image_on_canvas                                 *)
(***************************************************************************)
\* as create_canvas, but with the two axes exchanged
create_canvas_swapped(mx, my, num_channels) == Zeros3(mx + Margin, my + Margin, num_channels)

\* lines 138-145
create_canvas(mx, my, num_channels) == Zeros3(my + Margin, mx + Margin, num_channels)

\* lines 162-173: the tile is skipped as outside the canvas
FallsOutside(cv, im, x, y) ==
    LET end_y == Min(y + im.shape[1], cv.shape[1])
        end_x == Min(x + im.shape[2], cv.shape[2])
    IN  \/ end_y - y <= 0
        \/ end_x - x <= 0
        \/ x >= cv.shape[2]
        \/ y >= cv.shape[1]

\* lines 176-179: the two regions of canvas[y:end_y, x:end_x, c] =
\* img[:src_h, :src_w, c], with numpy's handling of the slice bounds
Regions(cv, im, x, y) ==
    LET end_y == Min(y + im.shape[1], cv.shape[1])
        end_x == Min(x + im.shape[2], cv.shape[2])
        y0 == SliceBound(y, cv.shape[1])
        x0 == SliceBound(x, cv.shape[2])
    IN  [ch_to_copy |-> Min(im.shape[3], cv.shape[3]),
         y0 |-> y0,
         x0 |-> x0,
         dst_h |-> Max(SliceBound(end_y, cv.shape[1]) - y0, 0),
         dst_w |-> Max(SliceBound(end_x, cv.shape[2]) - x0, 0),
         src_h |-> SliceBound(end_y - y, im.shape[1]),
         src_w |-> SliceBound(end_x - x, im.shape[2])]

\* the assignment of line 179 raises when the source region cannot be
\* broadcast to the destination region.  Every channel has the same two
\* region shapes, so it raises for the first channel or for none.
CopyRaises(cv, im, x, y) ==
    LET g == Regions(cv, im, x, y)
    IN  /\ g.ch_to_copy > 0
        /\ ~ /\ (g.src_h = g.dst_h \/ g.src_h = 1)
             /\ (g.src_w = g.dst_w \/ g.src_w = 1)

\* lines 175-182: when the assignment raises, the except clause is entered
\* from the first channel and nothing has been copied
CopyChannels(cv, im, x, y) ==
    LET g == Regions(cv, im, x, y)
    IN  IF CopyRaises(cv, im, x, y) THEN cv
        ELSE Ndarray(cv.shape,
               [r \in 0..(cv.shape[1] - 1) |->
                  [q \in 0..(cv.shape[2] - 1) |->
                     [c \in 0..(cv.shape[3] - 1) |->
                        IF /\ r >= g.y0 /\ r < g.y0 + g.dst_h
                           /\ q >= g.x0 /\ q < g.x0 + g.dst_w
                           /\ c < g.ch_to_copy
                        THEN CastUint16(im.px[IF g.src_h = 1 THEN 0 ELSE r - g.y0]
                                             [IF g.src_w = 1 THEN 0 ELSE q - g.x0][c])
                        ELSE cv.px[r][q][c]]]])

\* lines 177-182: the channels for which line 179 is executed.  The try
\* encloses the whole for loop, so the first assignment that raises is the
\* last one executed.
CopyAttempts(cv, im, x, y) ==
    IF im = NoneVal THEN <<>>
    ELSE IF FallsOutside(cv, Lift3(im), x, y) THEN <<>>
    ELSE IF CopyRaises(cv, Lift3(im), x, y) THEN <<0>>
    ELSE [k \in 1..Regions(cv, Lift3(im), x, y).ch_to_copy |-> k - 1]

place_image_on_canvas(cv, im, x, y) ==
    IF im = NoneVal THEN cv
    ELSE IF FallsOutside(cv, Lift3(im), x, y) THEN cv
    ELSE CopyChannels(cv, Lift3(im), x, y)

(***************************************************************************)
(* write_ome_tiff: the pyramid (lines 189-216)                             *)
(***************************************************************************)
\* as Downsample, but sampling the odd rows and columns
DownsampleOdd(current) ==
    LET new_h == current.shape[1] \div 2
        new_w == current.shape[2] \div 2
    IN  IF ndim(current) = 3
        THEN Ndarray(<<new_h, new_w, current.shape[3]>>,
                     [r \in 0..(new_h - 1) |->
                        [q \in 0..(new_w - 1) |->
                           [c \in 0..(current.shape[3] - 1) |->
                              current.px[r * 2 + 1][q * 2 + 1][c]]]])
        ELSE Ndarray(<<new_h, new_w>>,
                     [r \in 0..(new_h - 1) |->
                        [q \in 0..(new_w - 1) |-> current.px[r * 2 + 1][q * 2 + 1]]])

\* lines 194-213: one reduction of the level current
Downsample(current) ==
    LET new_h == current.shape[1] \div 2
        new_w == current.shape[2] \div 2
    IN  IF ndim(current) = 3
        THEN Ndarray(<<new_h, new_w, current.shape[3]>>,
                     [r \in 0..(new_h - 1) |->
                        [q \in 0..(new_w - 1) |->
                           [c \in 0..(current.shape[3] - 1) |->
                              current.px[r * 2][q * 2][c]]]])
        ELSE Ndarray(<<new_h, new_w>>,
                     [r \in 0..(new_h - 1) |->
                        [q \in 0..(new_w - 1) |-> current.px[r * 2][q * 2]]])

\* as KeepReducing, but going on while either dimension is large
KeepReducingEither(current) ==
    current.shape[1] > PyramidMinDim \/ current.shape[2] > PyramidMinDim

\* line 192: the loop condition
KeepReducing(current) ==
    current.shape[1] > PyramidMinDim /\ current.shape[2] > PyramidMinDim

\* the loop of lines 192-216, entered with the list built so far
RECURSIVE PyramidLoop(_, _)
PyramidLoop(pyr, current) ==
    IF KeepReducing(current)
    THEN LET downsampled == Downsample(current)
         IN  PyramidLoop(Append(pyr, downsampled), downsampled)
    ELSE pyr

BuildPyramid(image) == PyramidLoop(<<image>>, image)

(***************************************************************************)
(* write_ome_tiff: channel metadata (lines 231-266)                        *)
(***************************************************************************)
Descriptor(color, emission, excitation, fluor) ==
    [color |-> color, emission |-> emission, excitation |-> excitation, fluor |-> fluor]

\* the dict channel_metadata
channel_metadata ==
    ("DAPI" :> Descriptor("0000FF", 461, 358, "DAPI")) @@
    ("Opal 480" :> Descriptor("00FFFF", 523, 494, "Opal 480")) @@
    ("Opal 520" :> Descriptor("00FF00", 565, 494, "Opal 520")) @@
    ("Opal 570" :> Descriptor("FFFF00", 570, 555, "Opal 570")) @@
    ("Opal 620" :> Descriptor("FF0000", 620, 588, "Opal 620")) @@
    ("Sample AF" :> Descriptor("FFFFFF", 500, 488, "Autofluorescence")) @@
    ("default" :> Descriptor("FFFFFF", 500, 488, "Unknown"))

\* f"Channel {n}"
ChannelLabel(n) ==
    CASE n = 1 -> "Channel 1" [] n = 2 -> "Channel 2" [] n = 3 -> "Channel 3"
      [] n = 4 -> "Channel 4" [] n = 5 -> "Channel 5" [] n = 6 -> "Channel 6"
      [] n = 7 -> "Channel 7" [] n = 8 -> "Channel 8" [] OTHER -> "Channel 9"

\* as DictGet, but never finding the key
DictGetDefault(d, key, dflt) == dflt

\* dict.get(key, dflt)
DictGet(d, key, dflt) == IF key \in DOMAIN d THEN d[key] ELSE dflt

\* lines 225-229
SizeC(image) == IF ndim(image) = 3 THEN image.shape[3] ELSE 1

\* lines 249-266: the <Channel> element written for channel k (0-based)
ChannelElement(names, k) ==
    LET ch_name == IF k < Len(names) THEN names[k + 1] ELSE ChannelLabel(k + 1)
        m == DictGet(channel_metadata, ch_name, channel_metadata["default"])
    IN  [Name |-> ch_name, Color |-> m.color, Fluor |-> m.fluor,
         EmissionWavelength |-> m.emission, ExcitationWavelength |-> m.excitation]

ChannelElements(image, names) ==
    [k \in 1..SizeC(image) |-> ChannelElement(names, k - 1)]

(***************************************************************************)
(* write_ome_tiff: the container (lines 270-287)                           *)
(***************************************************************************)
\* as PageOptions, but flagging every level
PageOptionsAllReduced(k) == [subfiletype |-> ReducedImage]

\* lines 283-284: options of the write of level k (0-based); tifffile's
\* subfiletype is 0 as long as the key is absent from options
PageOptions(k) == [subfiletype |-> IF k > 0 THEN ReducedImage ELSE 0]

\* the pages in the container once n levels have been written
Pages(pyr, n) == [k \in 1..n |-> [level |-> pyr[k], options |-> PageOptions(k - 1)]]

(***************************************************************************)
(* find_tiff_files: a directory entry is [name, ext, header, data]         *)
(***************************************************************************)
GlobExts == <<"tif", "tiff", "TIF", "TIFF">>

\* folder_path.glob('*.' + ext), in directory order
Glob(dir, ext) == LET Has(f) == f.ext = ext IN SelectSeq(dir, Has)

\* pattern_regex.search(f.name) for a pattern that is one literal word
PatternFound(pat, name) == \E k \in 1..Len(name) : name[k] = pat

\* pat is "" when --pattern is absent (None and "" are both falsy)
find_tiff_files(dir, pat) ==
    LET all_files == Glob(dir, GlobExts[1]) \o Glob(dir, GlobExts[2])
                     \o Glob(dir, GlobExts[3]) \o Glob(dir, GlobExts[4])
        Keep(f) == PatternFound(pat, f.name)
    IN  IF pat # "" THEN SelectSeq(all_files, Keep) ELSE all_files

(***************************************************************************)
(* Inputs                                                                  *)
(***************************************************************************)
\* a 3-D array whose samples are all different, the smallest being base
Img3(h, w, c, base) ==
    Ndarray(<<h, w, c>>,
            [r \in 0..(h - 1) |-> [q \in 0..(w - 1) |->
                [k \in 0..(c - 1) |-> base + (r * w + q) * c + k]]])

\* the same for a 2-D array
Img2(h, w, base) ==
    Ndarray(<<h, w>>,
            [r \in 0..(h - 1) |-> [q \in 0..(w - 1) |-> base + r * w + q]])

Header(w, h, spp) == [imagewidth |-> w, imagelength |-> h, samplesperpixel |-> spp]

Entry(name, ext, header, data) ==
    [name |-> name, ext |-> ext, header |-> header, data |-> data]

\* the directory entries the folder is drawn from
Catalog ==
    { Entry(<<"[", "0", ",", "0", "]">>, "tif", Header(3, 2, 1), Img3(2, 3, 1, 1)),
      Entry(<<"[", "1", ",", "1", "]">>, "tiff", Header(2, 2, 2), Img3(2, 2, 2, 100)),
      Entry(<<"a">>, "TIF", Header(1, 1, 1), Img2(1, 1, 7)),
      Entry(<<"[", "1", "9", ",", "1", "9", "]">>, "tif", NoneVal, Img2(2, 2, 200)),
      Entry(<<"[", "1", ",", "0", "]">>, "TIFF", Header(2, 1, 2), NoneVal),
      Entry(<<"component_data", "[", "0", ",", "1", "]">>, "tif",
            Header(2, 12, 1), Img2(12, 2, 300)),
      Entry(<<"[", "1", ",", "0", "]", "a">>, "tif", Header(2, 1, 1), Img3(1, 2, 1, 65537)),
      Entry(<<"component_data", "[", "0", ",", "0", "]">>, "tif",
            Header(1, 1, 7), Img3(1, 1, 7, 400)),
      Entry(<<"[", "2", ",", "2", "]">>, "tif", Header(1, 1, 7), Img3(1, 1, 7, 500)),
      Entry(<<"[", "0", ",", "0", "]", "a">>, "png", Header(1, 1, 1), Img2(1, 1, 9)) }

\* the listings of at most n distinct entries
Listings(n) ==
    { d \in UNION { [1..m -> Catalog] : m \in 0..n } :
        \A a, b \in 1..Len(d) : a # b => d[a] # d[b] }

DefaultChannelNames ==
    <<"DAPI", "Opal 480", "Opal 520", "Opal 570", "Opal 620", "Sample AF">>

(***************************************************************************)
(* main: one run of the program                                            *)
(***************************************************************************)
Init ==
    /\ pc = "start"
    /\ folder \in Listings(MaxFiles)
    /\ pattern \in {"", "component_data"}
    /\ channels \in {1, 2}
    /\ channel_names = DefaultChannelNames
    /\ files = <<>>
    /\ i = 1
    /\ coordinates = <<>>
    /\ dimensions = <<>>
    /\ max_x = 0
    /\ max_y = 0
    /\ canvas = NoneVal
    /\ prev = NoneVal
    /\ filename = <<>>
    /\ xy = NoneVal
    /\ img = NoneVal
    /\ placed = <<>>
    /\ attempts = <<>>
    /\ pyramid = <<>>
    /\ meta = <<>>
    /\ out = NoFile
    /\ log = <<>>

\* as FindFiles, but without the early return of lines 307-309
FindFilesNoReturn ==
    /\ pc = "start"
    /\ files' = find_tiff_files(folder, pattern)
    /\ pc' = "analyze"
    /\ log' = log \o <<"INFO Searching", "INFO Found">>
    /\ UNCHANGED <<folder, pattern, channels, channel_names, i, coordinates,
                   dimensions, max_x, max_y, canvas, prev, filename, xy, img,
                   placed, attempts, pyramid, meta, out>>

\* lines 302-314
FindFiles ==
    /\ pc = "start"
    /\ files' = find_tiff_files(folder, pattern)
    /\ IF files' = <<>>
       THEN /\ pc' = "done"
            /\ log' = log \o <<"INFO Searching", "INFO Found",
                                "ERROR No matching files found.">>
       ELSE /\ pc' = "analyze"
            /\ log' = log \o <<"INFO Searching", "INFO Found", "INFO Analyzing">>
    /\ UNCHANGED <<folder, pattern, channels, channel_names, i, coordinates,
                   dimensions, max_x, max_y, canvas, prev, filename, xy, img,
                   placed, attempts, pyramid, meta, out>>

\* lines 83-101: one iteration of the loop of analyze_files
AnalyzeStep ==
    /\ pc = "analyze"
    /\ i <= Len(files)
    /\ filename' = files[i].name
    /\ xy' = extract_coordinates(files[i].name)
    /\ LET d == get_image_dimensions(files[i])
       IN  IF xy' = NoneVal
           THEN /\ log' = Append(log, "WARNING Could not extract coordinates")
                /\ UNCHANGED <<max_x, max_y, coordinates, dimensions>>
           ELSE IF d = NoneVal
           THEN /\ log' = Append(log, "ERROR Error analyzing")
                /\ UNCHANGED <<max_x, max_y, coordinates, dimensions>>
           ELSE /\ log' = Append(log, "INFO File")
                /\ max_x' = Max(max_x, xy'.x + d.width)
                /\ max_y' = Max(max_y, xy'.y + d.height)
                /\ coordinates' = Append(coordinates, <<xy'.x, xy'.y>>)
                /\ dimensions' = Append(dimensions, <<d.width, d.height, d.channels>>)
    /\ i' = i + 1
    /\ UNCHANGED <<pc, folder, pattern, channels, channel_names, files, canvas,
                   prev, img, placed, attempts, pyramid, meta, out>>

\* lines 313-320: analyze_files returns and the canvas is created
CreateCanvas ==
    /\ pc = "analyze"
    /\ i > Len(files)
    /\ canvas' = create_canvas(max_x, max_y, channels)
    /\ pc' = "place"
    /\ i' = 1
    /\ log' = log \o <<"INFO Canvas size will be", "INFO Creating canvas",
                        "INFO Placing images on canvas">>
    /\ UNCHANGED <<folder, pattern, channels, channel_names, files, coordinates,
                   dimensions, max_x, max_y, prev, filename, xy, img, placed,
                   attempts, pyramid, meta, out>>

\* what place_image_on_canvas logs
PlaceLog(cv, im, x, y) ==
    IF im = NoneVal THEN <<>>
    ELSE IF FallsOutside(cv, Lift3(im), x, y) THEN <<"WARNING falls outside canvas">>
    ELSE IF CopyRaises(cv, Lift3(im), x, y)
    THEN <<"ERROR Error copying image", "ERROR Canvas region">>
    ELSE <<>>

\* lines 321-328: one iteration of the placement loop of main
PlaceStep ==
    /\ pc = "place"
    /\ i <= Len(files)
    /\ filename' = files[i].name
    /\ xy' = extract_coordinates(files[i].name)
    /\ IF xy' = NoneVal
       THEN UNCHANGED <<canvas, prev, img, placed, attempts, log>>
       ELSE /\ img' = read_tiff(files[i])
            /\ prev' = canvas
            /\ canvas' = place_image_on_canvas(canvas, img', xy'.x, xy'.y)
            /\ placed' = Append(placed, [img |-> img', x |-> xy'.x, y |-> xy'.y])
            /\ attempts' = CopyAttempts(canvas, img', xy'.x, xy'.y)
            /\ log' = log \o <<"INFO Processing file">> \o ReadLog(files[i])
                          \o PlaceLog(canvas, img', xy'.x, xy'.y)
    /\ i' = i + 1
    /\ UNCHANGED <<pc, folder, pattern, channels, channel_names, files,
                   coordinates, dimensions, max_x, max_y, pyramid, meta, out>>

\* lines 330-333: write_ome_tiff is called once every tile has been handled.
\* Opening the container may fail, and so may each tif.write; the exception
\* leaves the with block, which closes the file and removes nothing, and
\* ends the run.
WriteOmeTiff ==
    /\ pc = "place"
    /\ i > Len(files)
    /\ pyramid' = BuildPyramid(canvas)
    /\ meta' = ChannelElements(canvas, channel_names)
    /\ \E opened \in BOOLEAN, n \in 0..Len(pyramid') :
          /\ opened \/ n = 0
          /\ out' = IF opened THEN [exists |-> TRUE, pages |-> Pages(pyramid', n)] ELSE out
          /\ IF opened /\ n = Len(pyramid')
             THEN /\ pc' = "done"
                  /\ log' = log \o <<"INFO Writing OME-TIFF", "INFO Saved OME-TIFF",
                                      "INFO Done!">>
             ELSE /\ pc' = "crashed"
                  /\ log' = Append(log, "INFO Writing OME-TIFF")
    /\ UNCHANGED <<folder, pattern, channels, channel_names, files, i,
                   coordinates, dimensions, max_x, max_y, canvas, prev, filename,
                   xy, img, placed, attempts>>

Next == FindFiles \/ AnalyzeStep \/ CreateCanvas \/ PlaceStep \/ WriteOmeTiff

Spec == Init /\ [][Next]_vars

(***************************************************************************)
(* write_ome_tiff on its own: the image and the channel names are drawn,   *)
(* and the run starts at the call of line 332.                             *)
(***************************************************************************)
\* a 3-D uint16 array in which neighbouring samples differ
Gradient3(h, w, c, base) ==
    Ndarray(<<h, w, c>>,
            [r \in 0..(h - 1) |-> [q \in 0..(w - 1) |->
                [k \in 0..(c - 1) |-> (base + 3 * r + 7 * q + 11 * k) % Uint16Range]]])

Gradient2(h, w, base) ==
    Ndarray(<<h, w>>,
            [r \in 0..(h - 1) |-> [q \in 0..(w - 1) |->
                (base + 3 * r + 7 * q) % Uint16Range]])

SmallImages ==
    { Zeros3(20, 20, 1), Gradient3(20, 21, 2, 1), Gradient3(2, 1, 3, 5),
      Gradient3(21, 20, 7, 9) }

LargeImages ==
    { Gradient3(256, 300, 1, 1), Gradient3(257, 256, 1, 2), Gradient3(257, 257, 1, 3),
      Gradient3(258, 259, 2, 4), Gradient3(513, 514, 1, 5), Gradient3(514, 515, 1, 6),
      Gradient2(258, 257, 7) }

ChannelNameLists ==
    { DefaultChannelNames, <<>>, <<"DAPI">>, <<"dapi", "Unrecognized Label">>,
      <<"default", "Opal 620">>, <<"Opal 570", "DAPI", "Sample AF">>,
      <<"Channel 1", "Opal 480", "Opal 520">> }

InitWrite ==
    /\ pc = "place"
    /\ \/ canvas \in SmallImages /\ channel_names \in ChannelNameLists
       \/ canvas \in LargeImages /\ channel_names = DefaultChannelNames
    /\ folder = <<>>
    /\ pattern = ""
    /\ channels = SizeC(canvas)
    /\ files = <<>>
    /\ i = 1
    /\ coordinates = <<>>
    /\ dimensions = <<>>
    /\ max_x = 0
    /\ max_y = 0
    /\ prev = NoneVal
    /\ filename = <<>>
    /\ xy = NoneVal
    /\ img = NoneVal
    /\ placed = <<>>
    /\ attempts = <<>>
    /\ pyramid = <<>>
    /\ meta = <<>>
    /\ out = NoFile
    /\ log = <<>>

NextWrite == WriteOmeTiff

SpecWrite == InitWrite /\ [][NextWrite]_vars

(***************************************************************************)
(* extract_coordinates on its own: the file name is drawn                  *)
(***************************************************************************)
\* the pieces a drawn name is made of
NamePieces ==
    { <<"[">>, <<"]">>, <<",">>, <<"0">>, <<"7">>, <<"a">>,
      <<"[", "1", ",", "2", "]">>, <<"[", "3", "0", ",", "0", "4", "]">>,
      <<"[", "a", ",", "5", "]">>, <<"component_data">> }

RECURSIVE Concat(_)
Concat(seqs) == IF seqs = <<>> THEN <<>> ELSE Head(seqs) \o Concat(Tail(seqs))

\* the names made of at most n pieces
Names(n) == { Concat(ps) : ps \in UNION { [1..m -> NamePieces] : m \in 0..n } }

InitCoord ==
    /\ pc = "call_extract"
    /\ filename \in Names(MaxPieces)
    /\ xy = NoneVal
    /\ folder = <<>>
    /\ pattern = ""
    /\ channels = 1
    /\ channel_names = <<>>
    /\ files = <<>>
    /\ i = 1
    /\ coordinates = <<>>
    /\ dimensions = <<>>
    /\ max_x = 0
    /\ max_y = 0
    /\ canvas = NoneVal
    /\ prev = NoneVal
    /\ img = NoneVal
    /\ placed = <<>>
    /\ attempts = <<>>
    /\ pyramid = <<>>
    /\ meta = <<>>
    /\ out = NoFile
    /\ log = <<>>

\* a call of extract_coordinates
ExtractCoordinates ==
    /\ pc = "call_extract"
    /\ xy' = extract_coordinates(filename)
    /\ pc' = "extracted"
    /\ UNCHANGED <<folder, pattern, channels, channel_names, files, i,
                   coordinates, dimensions, max_x, max_y, canvas, prev, filename,
                   img, placed, attempts, pyramid, meta, out, log>>

NextCoord == ExtractCoordinates

SpecCoord == InitCoord /\ [][NextCoord]_vars

(***************************************************************************)
(* place_image_on_canvas on its own: canvas, tile and offset are drawn     *)
(***************************************************************************)
\* the tiles: None, 2-D and 3-D arrays, of narrow and of wide samples
Tiles ==
    {NoneVal}
    \cup { Img2(h, w, b) : h \in 1..MaxTileDim, w \in 1..MaxTileDim, b \in {1, 65537} }
    \cup { Img3(h, w, c, b) : h \in 1..MaxTileDim, w \in 1..MaxTileDim,
                              c \in 1..3, b \in {1, 65537} }

\* canvases that are not blank, so that an untouched cell is recognisable
Canvases ==
    { Img3(h, w, c, 1000) : h \in 1..MaxCanvasDim, w \in 1..MaxCanvasDim, c \in 1..2 }

InitPlace ==
    /\ pc = "call_place"
    /\ canvas \in Canvases
    /\ img \in Tiles
    /\ xy \in [x : 0..MaxOffset, y : 0..MaxOffset]
    /\ prev = NoneVal
    /\ folder = <<>>
    /\ pattern = ""
    /\ channels = canvas.shape[3]
    /\ channel_names = <<>>
    /\ files = <<>>
    /\ i = 1
    /\ coordinates = <<>>
    /\ dimensions = <<>>
    /\ max_x = 0
    /\ max_y = 0
    /\ filename = <<>>
    /\ placed = <<>>
    /\ attempts = <<>>
    /\ pyramid = <<>>
    /\ meta = <<>>
    /\ out = NoFile
    /\ log = <<>>

\* a call of place_image_on_canvas
PlaceImage ==
    /\ pc = "call_place"
    /\ prev' = canvas
    /\ canvas' = place_image_on_canvas(canvas, img, xy.x, xy.y)
    /\ placed' = Append(placed, [img |-> img, x |-> xy.x, y |-> xy.y])
    /\ attempts' = CopyAttempts(canvas, img, xy.x, xy.y)
    /\ log' = log \o PlaceLog(canvas, img, xy.x, xy.y)
    /\ pc' = "placed"
    /\ UNCHANGED <<folder, pattern, channels, channel_names, files, i,
                   coordinates, dimensions, max_x, max_y, filename, xy, img,
                   pyramid, meta, out>>

NextPlace == PlaceImage

SpecPlace == InitPlace /\ [][NextPlace]_vars

(***************************************************************************)
(* place_image_on_canvas called with any integer offset: main only passes  *)
(* the non-negative offsets that extract_coordinates returns, another      *)
(* caller of the function may pass a negative one.                         *)
(***************************************************************************)
InitPlaceSigned ==
    /\ pc = "call_place"
    /\ canvas \in Canvases
    /\ img \in Tiles
    /\ xy \in [x : (-MaxOffset)..MaxOffset, y : (-MaxOffset)..MaxOffset]
    /\ prev = NoneVal
    /\ folder = <<>>
    /\ pattern = ""
    /\ channels = canvas.shape[3]
    /\ channel_names = <<>>
    /\ files = <<>>
    /\ i = 1
    /\ coordinates = <<>>
    /\ dimensions = <<>>
    /\ max_x = 0
    /\ max_y = 0
    /\ filename = <<>>
    /\ placed = <<>>
    /\ attempts = <<>>
    /\ pyramid = <<>>
    /\ meta = <<>>
    /\ out = NoFile
    /\ log = <<>>

SpecPlaceSigned == InitPlaceSigned /\ [][NextPlace]_vars

(***************************************************************************)
(* read_tiff on its own: one call on a file of any name and any decoded    *)
(* buffer.                                                                 *)
(***************************************************************************)
\* file paths, as pieces; 'component_data' may stand anywhere in the path
ReadNames ==
    { <<"a">>,
      <<"component_data">>,
      <<"component_data", "[", "0", ",", "0", "]">>,
      <<"[", "1", ",", "2", "]", "component_data", "a">>,
      <<"Component_Data", "[", "0", ",", "0", "]">> }

\* what tif.asarray() of line 109 can return, or NoneVal when it raises
ReadBuffers ==
    { Img2(h, w, 100) : h \in 1..(BandHeight * MaxBands), w \in 1..MaxTileDim }
    \cup { Img3(h, w, c, 100) :
               h \in 1..MaxTileDim, w \in 1..MaxTileDim, c \in 1..MaxReadChannels }
    \cup { NoneVal }

InitRead ==
    /\ pc = "call_read"
    /\ \E name \in ReadNames, data \in ReadBuffers :
          /\ filename = name
          /\ files = << Entry(name, "tif", NoneVal, data) >>
    /\ img = NoneVal
    /\ xy = NoneVal
    /\ folder = <<>>
    /\ pattern = ""
    /\ channels = 1
    /\ channel_names = <<>>
    /\ i = 1
    /\ coordinates = <<>>
    /\ dimensions = <<>>
    /\ max_x = 0
    /\ max_y = 0
    /\ canvas = NoneVal
    /\ prev = NoneVal
    /\ placed = <<>>
    /\ attempts = <<>>
    /\ pyramid = <<>>
    /\ meta = <<>>
    /\ out = NoFile
    /\ log = <<>>

\* a call of read_tiff
ReadTiff ==
    /\ pc = "call_read"
    /\ img' = read_tiff(files[1])
    /\ log' = log \o ReadLog(files[1])
    /\ pc' = "read"
    /\ UNCHANGED <<folder, pattern, channels, channel_names, files, i,
                   coordinates, dimensions, max_x, max_y, canvas, prev, filename,
                   xy, placed, attempts, pyramid, meta, out>>

NextRead == ReadTiff

SpecRead == InitRead /\ [][NextRead]_vars

(***************************************************************************)
(* Properties                                                              *)
(***************************************************************************)
\* the tiles of the inventory whose coordinates parsed and whose
\* dimensions were read
ValidTiles == { k \in 1..Len(files) :
                  /\ extract_coordinates(files[k].name) # NoneVal
                  /\ get_image_dimensions(files[k]) # NoneVal }

RightEdge(k) == extract_coordinates(files[k].name).x + get_image_dimensions(files[k]).width
BottomEdge(k) == extract_coordinates(files[k].name).y + get_image_dimensions(files[k]).height

\* C1: once the canvas is allocated, its width is max(x + width) + 20 and
\* its height max(y + height) + 20 over the valid tiles, it is 20 by 20
\* when no tile is valid, and it is never smaller than 20 either way.
C1_CanvasExtent ==
    (pc \in {"place", "done", "crashed"} /\ canvas # NoneVal) =>
        /\ canvas.shape[3] = channels
        /\ canvas.shape[1] >= Margin
        /\ canvas.shape[2] >= Margin
        /\ ValidTiles = {} => canvas.shape[1] = Margin /\ canvas.shape[2] = Margin
        /\ ValidTiles # {} =>
              /\ \E k \in ValidTiles : canvas.shape[2] = RightEdge(k) + Margin
              /\ \A k \in ValidTiles : canvas.shape[2] >= RightEdge(k) + Margin
              /\ \E k \in ValidTiles : canvas.shape[1] = BottomEdge(k) + Margin
              /\ \A k \in ValidTiles : canvas.shape[1] >= BottomEdge(k) + Margin

\* a canvas allocated from two valid tiles of different extents, the
\* widest not being the tallest
C1_Witness ==
    /\ pc = "place"
    /\ canvas # NoneVal
    /\ \E a, b \in ValidTiles :
          /\ RightEdge(a) > RightEdge(b)
          /\ BottomEdge(b) > BottomEdge(a)
          /\ canvas.shape = <<BottomEdge(b) + Margin, RightEdge(a) + Margin, channels>>

\* sample (r, q, c) of a tile, 2-D or 3-D
TileSample(t, r, q, c) == IF ndim(t) = 2 THEN t.px[r][q] ELSE t.px[r][q][c]
TileChannels(t) == IF ndim(t) = 2 THEN 1 ELSE t.shape[3]

\* canvas cell (r, q) lies in the rectangle of a tile of shape t placed at (x, y)
InTile(t, x, y, r, q) ==
    /\ r >= y /\ r < y + t.shape[1]
    /\ q >= x /\ q < x + t.shape[2]

\* C2: place_image_on_canvas reproduces the tile's samples exactly in the
\* intersection of the tile rectangle with the canvas, and every canvas
\* cell outside the intersection keeps its previous value.
C2_PlacementExact ==
    pc = "placed" =>
        /\ canvas.shape = prev.shape
        /\ img = NoneVal => canvas = prev
        /\ img # NoneVal =>
              \A r \in 0..(canvas.shape[1] - 1), q \in 0..(canvas.shape[2] - 1),
                 c \in 0..(canvas.shape[3] - 1) :
                 /\ (InTile(img, xy.x, xy.y, r, q) /\ c < TileChannels(img)) =>
                       canvas.px[r][q][c] = TileSample(img, r - xy.y, q - xy.x, c)
                 /\ ~InTile(img, xy.x, xy.y, r, q) =>
                       canvas.px[r][q][c] = prev.px[r][q][c]

\* C3: right after tile B is placed, the canvas equals B's samples wherever
\* B's rectangle meets the rectangle of a tile A placed before it.
C3_LastWriteWins ==
    (Len(placed) >= 2 /\ canvas # NoneVal) =>
        LET B == placed[Len(placed)]
        IN  B.img # NoneVal =>
              \A a \in 1..(Len(placed) - 1) :
                 placed[a].img # NoneVal =>
                    \A r \in 0..(canvas.shape[1] - 1), q \in 0..(canvas.shape[2] - 1),
                       c \in 0..(canvas.shape[3] - 1) :
                       ( /\ InTile(placed[a].img, placed[a].x, placed[a].y, r, q)
                         /\ InTile(B.img, B.x, B.y, r, q)
                         /\ c < TileChannels(B.img) )
                       => canvas.px[r][q][c] = TileSample(B.img, r - B.y, q - B.x, c)

\* the run has gone through write_ome_tiff
PyramidBuilt == pc \in {"done", "crashed"} /\ pyramid # <<>>

\* C4: the pyramid has at least one level, level 0 is the input image, and
\* each further level has the floor-halved height and width, the same
\* channels, strictly smaller dimensions and the samples at the even rows
\* and columns of the level before it.
C4_PyramidHalving ==
    PyramidBuilt =>
        /\ Len(pyramid) >= 1
        /\ pyramid[1] = canvas
        /\ \A k \in 1..(Len(pyramid) - 1) :
              LET a == pyramid[k]
                  b == pyramid[k + 1]
              IN  /\ b.shape[1] = a.shape[1] \div 2
                  /\ b.shape[2] = a.shape[2] \div 2
                  /\ b.shape[1] < a.shape[1]
                  /\ b.shape[2] < a.shape[2]
                  /\ ndim(b) = ndim(a)
                  /\ ndim(a) = 3 => b.shape[3] = a.shape[3]
                  /\ DOMAIN b.px = 0..(b.shape[1] - 1)
                  /\ \A r \in 0..(b.shape[1] - 1) :
                        /\ DOMAIN b.px[r] = 0..(b.shape[2] - 1)
                        /\ \A q \in 0..(b.shape[2] - 1) :
                              b.px[r][q] = a.px[2 * r][2 * q]

\* a pyramid of three levels
C4_Witness == PyramidBuilt /\ Len(pyramid) >= 3 /\ pyramid[3].shape[1] >= 1

\* C5 as stated: every level appended after level 0 has both dimensions
\* greater than 256.
C5_AppendedAbove256 ==
    PyramidBuilt =>
        \A k \in 2..Len(pyramid) :
            /\ pyramid[k].shape[1] > PyramidMinDim
            /\ pyramid[k].shape[2] > PyramidMinDim

\* C5 amended: a reduction is taken exactly when the current level has both
\* dimensions above 256, so every level but the last has both dimensions
\* above 256, the last has a dimension of at most 256, and every appended
\* level has both dimensions of at least 128.
C5_ReduceWhileAbove256 ==
    PyramidBuilt =>
        /\ \A k \in 1..(Len(pyramid) - 1) :
              /\ pyramid[k].shape[1] > PyramidMinDim
              /\ pyramid[k].shape[2] > PyramidMinDim
        /\ \/ pyramid[Len(pyramid)].shape[1] <= PyramidMinDim
           \/ pyramid[Len(pyramid)].shape[2] <= PyramidMinDim
        /\ \A k \in 2..Len(pyramid) :
              /\ 2 * pyramid[k].shape[1] >= PyramidMinDim
              /\ 2 * pyramid[k].shape[2] >= PyramidMinDim

\* an appended level with a dimension of at most 256
C5_Witness ==
    /\ PyramidBuilt
    /\ Len(pyramid) >= 2
    /\ pyramid[Len(pyramid)].shape[1] <= PyramidMinDim

\* s[a..b] is a non-empty run of digits
IsDigits(s, a, b) == a <= b /\ \A k \in a..b : s[k] \in Digit

\* '[' digits ',' digits ']' occupies s[a..c], the comma being at b
OccursAt(s, a, b, c) ==
    /\ s[a] = "[" /\ s[b] = "," /\ s[c] = "]"
    /\ IsDigits(s, a + 1, b - 1)
    /\ IsDigits(s, b + 1, c - 1)

\* where the occurrences of the pattern start
Starts(s) == { a \in 1..Len(s) : \E b, c \in 1..Len(s) : OccursAt(s, a, b, c) }

RECURSIVE Pow10(_)
Pow10(n) == IF n = 0 THEN 1 ELSE 10 * Pow10(n - 1)

\* the number written in decimal in s[a..b]
RECURSIVE Decimal(_, _, _)
Decimal(s, a, b) ==
    IF a > b THEN 0 ELSE DigitVal(s[a]) * Pow10(b - a) + Decimal(s, a + 1, b)

\* C6: for a name containing '[' digits ',' digits ']' the result is the
\* two numbers of the first occurrence, x then y; for any other name it is
\* the 'no coordinates' value.
C6_FirstBracketPair ==
    pc = "extracted" =>
        IF Starts(filename) = {}
        THEN xy = NoneVal
        ELSE LET a == CHOOSE m \in Starts(filename) : \A n \in Starts(filename) : m <= n
                 bc == CHOOSE p \in (1..Len(filename)) \X (1..Len(filename)) :
                          OccursAt(filename, a, p[1], p[2])
             IN  xy = [x |-> Decimal(filename, a + 1, bc[1] - 1),
                       y |-> Decimal(filename, bc[1] + 1, bc[2] - 1)]

\* a name with two occurrences of different content, after other text
C6_Witness ==
    /\ pc = "extracted"
    /\ Cardinality(Starts(filename)) = 2
    /\ filename[1] = "a"
    /\ xy = [x |-> 30, y |-> 4]

\* the name of channel k (1-based) as write_ome_tiff takes it
NameOfChannel(k) ==
    IF k <= Len(channel_names) THEN channel_names[k] ELSE ChannelLabel(k)

\* the colour and fluorophore the table gives each of its names
TableColor(name) ==
    CASE name = "DAPI" -> "0000FF"
      [] name = "Opal 480" -> "00FFFF"
      [] name = "Opal 520" -> "00FF00"
      [] name = "Opal 570" -> "FFFF00"
      [] name = "Opal 620" -> "FF0000"
      [] OTHER -> "FFFFFF"

TableFluor(name) ==
    CASE name \in {"DAPI", "Opal 480", "Opal 520", "Opal 570", "Opal 620"} -> name
      [] name = "Sample AF" -> "Autofluorescence"
      [] OTHER -> "Unknown"

\* C7: every channel gets a descriptor: the table entry of exactly its
\* name when there is one ('DAPI' gives colour 0000FF), else the default
\* descriptor (colour FFFFFF, fluorophore 'Unknown').
C7_MetadataLookup ==
    PyramidBuilt =>
        /\ Len(meta) = SizeC(canvas)
        /\ \A k \in 1..Len(meta) :
              /\ meta[k].Name = NameOfChannel(k)
              /\ meta[k].Color = TableColor(NameOfChannel(k))
              /\ meta[k].Fluor = TableFluor(NameOfChannel(k))
              /\ NameOfChannel(k) = "DAPI" => meta[k].Color = "0000FF"
              /\ NameOfChannel(k) \notin DOMAIN channel_metadata =>
                    /\ meta[k].Color = "FFFFFF"
                    /\ meta[k].Fluor = "Unknown"

\* a table name, a name differing from a table name by case only, and a
\* channel beyond the given names, all resolved in one run
C7_Witness ==
    /\ PyramidBuilt
    /\ Len(meta) >= 3
    /\ channel_names = <<"dapi", "Unrecognized Label">>
    /\ meta[1].Fluor = "Unknown"
    /\ meta[3].Name = "Channel 3"

\* C8: the pages of the container are the pyramid levels in order from
\* level 0; level 0 is written without the reduced-image flag and every
\* later level with subfiletype 1.
C8_ReducedFlag ==
    out.exists =>
        /\ Len(out.pages) <= Len(pyramid)
        /\ \A k \in 1..Len(out.pages) :
              /\ out.pages[k].level = pyramid[k]
              /\ k = 1 => out.pages[k].options.subfiletype = 0
              /\ k > 1 => out.pages[k].options.subfiletype = ReducedImage

\* a container holding three levels
C8_Witness ==
    /\ pc = "done"
    /\ out.exists
    /\ Len(out.pages) = 3
    /\ out.pages[3].options.subfiletype = ReducedImage

\* C9: a run whose tile collection is empty after filtering ends normally
\* right after logging the error, with no canvas and no output file.
C9_EmptyInventory ==
    (pc # "start" /\ files = <<>>) =>
        /\ pc = "done"
        /\ canvas = NoneVal
        /\ out = NoFile
        /\ log # <<>>
        /\ log[Len(log)] = "ERROR No matching files found."

\* a folder that holds files, none of which is kept
C9_Witness ==
    /\ pc = "done"
    /\ files = <<>>
    /\ Len(folder) = MaxFiles
    /\ pattern # ""

\* C10: a run that has ended left either no output file or a file holding
\* every level of the pyramid.
C10_AllOrNothing ==
    pc \in {"done", "crashed"} =>
        \/ ~out.exists
        \/ /\ Len(pyramid) >= 1
           /\ Len(out.pages) = Len(pyramid)
           /\ \A k \in 1..Len(pyramid) : out.pages[k].level = pyramid[k]

ReadData == files[1].data

\* C13: for a path containing 'component_data' and a 2-D buffer of R rows and
\* W columns with R a multiple of 6, read_tiff returns shape (6, W, R/6)
\* with band c, row r, column x equal to input row 6*c + r, column x; every
\* input sample appears exactly once in the result.
C13_BandReshape ==
    (pc = "read" /\ HasComponentData(filename) /\ ReadData # NoneVal
       /\ Len(ReadData.shape) = 2 /\ ReadData.shape[1] % 6 = 0) =>
        LET R == ReadData.shape[1]
            W == ReadData.shape[2]
        IN  /\ img.shape = <<6, W, R \div 6>>
            /\ DOMAIN img.px = 0..5
            /\ \A r \in 0..5 :
                  /\ DOMAIN img.px[r] = 0..(W - 1)
                  /\ \A x \in 0..(W - 1) :
                        /\ DOMAIN img.px[r][x] = 0..((R \div 6) - 1)
                        /\ \A c \in 0..((R \div 6) - 1) :
                              img.px[r][x][c] = ReadData.px[6 * c + r][x]
            /\ \A row \in 0..(R - 1), x \in 0..(W - 1) :
                  img.px[row % 6][x][row \div 6] = ReadData.px[row][x]

C13_Witness ==
    /\ pc = "read"
    /\ HasComponentData(filename)
    /\ ReadData # NoneVal
    /\ ReadData.shape = <<12, 2>>
    /\ img.shape = <<6, 2, 2>>
    /\ img.px[1][0][1] = ReadData.px[7][0]

\* the band reinterpretation applies to the file read
ReinterpretationApplies ==
    /\ HasComponentData(filename)
    /\ Len(ReadData.shape) = 2
    /\ ReadData.shape[1] % 6 = 0

\* img is ReadData cut to its first 6 channels
IsFirstSix ==
    /\ img.shape = <<ReadData.shape[1], ReadData.shape[2], 6>>
    /\ \A r \in 0..(ReadData.shape[1] - 1), x \in 0..(ReadData.shape[2] - 1) :
          /\ DOMAIN img.px[r][x] = 0..5
          /\ \A c \in 0..5 : img.px[r][x][c] = ReadData.px[r][x][c]

\* C14 as stated: whenever the band reinterpretation does not apply and the
\* buffer has more than 6 channels, read_tiff returns its first 6 channels,
\* whatever the path; a buffer of 6 channels or fewer keeps its channel count.
C14_TruncateAnyIdentifier ==
    (pc = "read" /\ ReadData # NoneVal /\ ~ReinterpretationApplies) =>
        /\ (Len(ReadData.shape) = 3 /\ ReadData.shape[3] > 6) => IsFirstSix
        /\ (Len(ReadData.shape) = 3 /\ ReadData.shape[3] <= 6) =>
              img.shape[3] = ReadData.shape[3]

\* C14 amended: the truncation to the first 6 channels is done for a path
\* containing 'component_data'; for any other path the buffer is returned as
\* decoded, whatever its channel count; a buffer of 6 channels or fewer is
\* returned as decoded for every path.
C14_TruncateComponentData ==
    (pc = "read" /\ ReadData # NoneVal /\ ~ReinterpretationApplies) =>
        /\ (HasComponentData(filename) /\ Len(ReadData.shape) = 3
               /\ ReadData.shape[3] > 6) => IsFirstSix
        /\ ~HasComponentData(filename) => img = ReadData
        /\ (Len(ReadData.shape) = 3 /\ ReadData.shape[3] <= 6) => img = ReadData

C14_Witness ==
    /\ pc = "read"
    /\ HasComponentData(filename)
    /\ ReadData # NoneVal
    /\ Len(ReadData.shape) = 3
    /\ ReadData.shape[3] = 8
    /\ img.shape[3] = 6
    /\ log = <<"INFO Limiting channels">>

\* tile k decodes, and its decoded height and width are the declared ones
Decodes(k) == read_tiff(files[k]) # NoneVal
DeclaredAsDecoded(k) ==
    /\ read_tiff(files[k]).shape[1] = get_image_dimensions(files[k]).height
    /\ read_tiff(files[k]).shape[2] = get_image_dimensions(files[k]).width

\* C15, first part: a tile that was analyzed and whose decoded height and
\* width are the declared ones lies within the canvas less its margin:
\* x + width <= canvas width - 20 and y + height <= canvas height - 20, and
\* it is not skipped as out of canvas.
C15_TilesInside ==
    canvas # NoneVal =>
        \A k \in ValidTiles :
           (Decodes(k) /\ DeclaredAsDecoded(k)) =>
              LET t == extract_coordinates(files[k].name)
              IN  /\ RightEdge(k) <= canvas.shape[2] - 20
                  /\ BottomEdge(k) <= canvas.shape[1] - 20
                  /\ ~FallsOutside(canvas, Lift3(read_tiff(files[k])), t.x, t.y)

\* C15, second part: when every analyzed tile that decodes has its declared
\* height and width, the 20 rightmost columns and the 20 bottom rows of the
\* canvas are zero once every tile has been handled.
C15_MarginZero ==
    ( /\ canvas # NoneVal
      /\ pc \in {"done", "crashed"}
      /\ \A k \in ValidTiles : Decodes(k) => DeclaredAsDecoded(k) ) =>
        \A r \in 0..(canvas.shape[1] - 1), q \in 0..(canvas.shape[2] - 1),
           c \in 0..(canvas.shape[3] - 1) :
           (r >= canvas.shape[1] - 20 \/ q >= canvas.shape[2] - 20) =>
              canvas.px[r][q][c] = 0

====
